---- MODULE Spec2Model ----
(***************************************************************************)
(* A model of bfi (src/bfi.c): main runs prepare() over the source buffer  *)
(* to build the line map and the jump table, then, only if prepare()       *)
(* succeeded, execute() interprets the source against the tape.            *)
(*                                                                         *)
(* Offsets are 0-based as in the C code: source, lines, jumps and cells    *)
(* are functions over 0..n-1.                                              *)
(***************************************************************************)
EXTENDS Integers, Sequences, FiniteSets, TLC

(***************************************************************************)
(* Bounds of the model.                                                    *)
(***************************************************************************)
\* Every source over the whole alphabet up to this length is explored.
MaxLen == 3
\* Every source made of brackets, '+' and newlines up to this length is explored.
MaxBracketLen == 5
\* Tape length of the model (CELL_COUNT is 30000 in src/bfi.c:11).
TapeLen == 10
\* At most this many bytes are available on standard input.
MaxInput == 1
\* Only the first MaxOut bytes written by '.' are recorded in stdout.
MaxOut == 2

(***************************************************************************)
(* Program constants.                                                      *)
(***************************************************************************)
\* #define CELL_COUNT 30000, scaled to the model's tape length.
CELL_COUNT == TapeLen
\* uint8_t cells: arithmetic is modulo 2^8.
CellMod == 256
\* size_t pc: unsigned arithmetic modulo 2^16 (the least width C allows).
SizeMod == 65536
\* The dump shows cells from 2 before the pointer, 10 in all.
DumpBefore == 2
DumpCount == 10
\* An element of jumps that prepare() never wrote (xalloc returns
\* uninitialised memory).
Undef == -1

NL == "\n"
Alphabet == {"+", "-", ">", "<", "[", "]", ".", ",", "#", NL, "x"}
BracketAlphabet == {"[", "]", "+", NL}
\* Bytes standard input can deliver.
InputBytes == {0, 255}
\* Values a read past the end of cells[] can deliver.
OobVals == {0, 255}

FromSeq(s) == [i \in 0..(Len(s) - 1) |-> s[i + 1]]
Size(f) == Cardinality(DOMAIN f)

\* k times the byte b.
Repeat(b, k) == [j \in 1..k |-> b]

\* Longer programs the exhaustive sets do not contain.
Scenarios ==
    {FromSeq(s) : s \in
        { <<"+", "[", ">", "+", "#", "]">>,
          <<"+", "[", ">", "+", "]">>,
          <<"+", "[", ">", "+", "]", "<", "#">>,
          <<",", "[", ".", ",", "]">>,
          <<"+", "[", "-", "]", ".">>,
          <<"+", "[", "[", "-", "]", "]", "+">>,
          <<"[", "x", "[", NL, "]", "]", "[", "]">>,
          <<"]", NL, "[", "]", "]", NL, "[">>,
          <<"x", NL, ">", NL, "<", "<">>,
          <<"+", "[", "-", "]">>,
          <<"-", "[", "-", "]">>,
          <<",", "[", "-", "]">>,
          <<"+", "+", "[", "-", "]">>,
          <<">", "-", "[", "-", "]", "<">> }}
    \cup {FromSeq(<<b>> \o Repeat(c, CellMod)) : b \in {",", "x"}, c \in {"+", "-"}}
    \cup {FromSeq(Repeat("+", k) \o <<".">>) : k \in {CellMod - 1, CellMod, CellMod + 1}}
    \cup {FromSeq(Repeat(">", k)) : k \in 0..(TapeLen + 1)}
    \cup {FromSeq(Repeat(">", k) \o <<"#">>) : k \in 0..(TapeLen - 1)}

SeqsOver(A, n) == UNION {[0..(k - 1) -> A] : k \in 0..n}

Sources == SeqsOver(Alphabet, MaxLen) \cup SeqsOver(BracketAlphabet, MaxBracketLen)
           \cup Scenarios

VARIABLES
    source,     \* the source buffer (xslurp), fixed for the run
    debug,      \* --debug given (argcheck)
    lines,      \* line number of each source byte
    jumps,      \* jump index of each '[' and ']'
    cells,      \* the tape
    cellptr,    \* the tape pointer
    pc,         \* execute()'s program counter
    loop_i,     \* prepare()'s loop index i
    stack,      \* prepare()'s stack[0 .. stack_count-1] of pending '[' offsets
    line,       \* prepare()'s line counter
    success,    \* prepare()'s result so far
    phase,      \* "scan", "report", "execute" or "done": where main is
    prepared,   \* prepare()'s return value (FALSE until it has returned)
    status,     \* "running", "success" or "failure": main's result
    consumed,   \* the bytes read from standard input so far
    eof,        \* standard input has reported end-of-stream
    stdout,     \* the bytes '.' wrote (first MaxOut only)
    stderr,     \* the errors reported by errorf, in order
    dump,       \* the rows printed by the last '#' dump
    jread       \* the offset of the last element of jumps execute() read

vars == <<source, debug, lines, jumps, cells, cellptr, pc, loop_i, stack, line,
          success, phase, prepared, status, consumed, eof, stdout, stderr, dump,
          jread>>

source_size == Size(source)

(***************************************************************************)
(* errorf: one line on the diagnostic stream.                              *)
(***************************************************************************)
Err(ln, msg) == [line |-> ln, msg |-> msg]
UnbalancedClose == "Unbalanced ']'"
UnbalancedOpen == "Unbalanced '['"
RightOutOfBounds == "'>' causes cell out of bounds"
LeftOutOfBounds == "'<' causes cell out of bounds"

(***************************************************************************)
(* Helpers of prepare().                                                   *)
(***************************************************************************)
\* stack_count -= 1; stack[stack_count] is the entry that is matched.
PopIndexBottom(stk) == 1
PopIndex(stk) == Len(stk)

RemoveAt(s, k) == SubSeq(s, 1, k - 1) \o SubSeq(s, k + 1, Len(s))

\* The line an unbalanced ']' is reported with: the counter `line`.
CloseErrLineZeroBased(ln) == ln - 1
CloseErrLine(ln) == ln

\* lines[i] = line, before line += source[i] == '\n'.
RecordedLineAfterIncrement(ln, byte) == ln + (IF byte = NL THEN 1 ELSE 0)
RecordedLine(ln, byte) == ln

\* jumps after matching the '[' at offset open with the ']' at offset close.
LinkOneWay(j, open, close) == [j EXCEPT ![open] = close]
Link(j, open, close) == [j EXCEPT ![open] = close, ![close] = open]

\* The offset the scan goes on with after an unbalanced ']' at k (continue).
AfterUnbalancedAbort(src, k) == Size(src)
AfterUnbalanced(src, k) == k + 1

\* Index into the stack of the k-th entry reported (k = 0 .. stack_count-1).
ReportIndexFromTop(stk, k) == Len(stk) - k
ReportIndex(stk, k) == k + 1

(***************************************************************************)
(* main: argcheck and xslurp have run; the tape is the zeroed static array.*)
(***************************************************************************)
Init ==
    /\ source \in Sources
    /\ debug \in BOOLEAN
    /\ lines = [i \in DOMAIN source |-> Undef]
    /\ jumps = [i \in DOMAIN source |-> Undef]
    /\ cells = [i \in 0..(CELL_COUNT - 1) |-> 0]
    /\ cellptr = 0
    /\ pc = 0
    /\ loop_i = 0
    /\ stack = <<>>
    /\ line = 1
    /\ success = TRUE
    /\ phase = "scan"
    /\ prepared = FALSE
    /\ status = "running"
    /\ consumed = <<>>
    /\ eof = FALSE
    /\ stdout = <<>>
    /\ stderr = <<>>
    /\ dump = <<>>
    /\ jread = Undef

(***************************************************************************)
(* prepare(): one action per case of an iteration of the scan loop, one    *)
(* for an iteration of the report loop, one for the return to main.        *)
(***************************************************************************)
Untouched ==
    UNCHANGED <<source, debug, cells, cellptr, pc, consumed, eof, stdout, dump, jread>>

\* The scan loop's condition holds.
Scanning == phase = "scan" /\ loop_i < source_size

\* A byte that is neither '[' nor ']'.
ScanOther ==
    /\ Scanning
    /\ source[loop_i] \notin {"[", "]"}
    /\ lines' = [lines EXCEPT ![loop_i] = RecordedLine(line, source[loop_i])]
    /\ line' = line + (IF source[loop_i] = NL THEN 1 ELSE 0)
    /\ loop_i' = loop_i + 1
    /\ Untouched
    /\ UNCHANGED <<jumps, stack, success, phase, prepared, status, stderr>>

\* stack[stack_count++] = i;
ScanOpen ==
    /\ Scanning
    /\ source[loop_i] = "["
    /\ lines' = [lines EXCEPT ![loop_i] = RecordedLine(line, source[loop_i])]
    /\ stack' = Append(stack, loop_i)
    /\ loop_i' = loop_i + 1
    /\ Untouched
    /\ UNCHANGED <<jumps, line, success, phase, prepared, status, stderr>>

\* ']' with a pending '[': pop it and link the two.
ScanClose ==
    /\ Scanning
    /\ source[loop_i] = "]"
    /\ Len(stack) # 0
    /\ lines' = [lines EXCEPT ![loop_i] = RecordedLine(line, source[loop_i])]
    /\ LET k == PopIndex(stack)
       IN  /\ stack' = RemoveAt(stack, k)
           /\ jumps' = Link(jumps, stack[k], loop_i)
    /\ loop_i' = loop_i + 1
    /\ Untouched
    /\ UNCHANGED <<line, success, phase, prepared, status, stderr>>

\* ']' with stack_count == 0: errorf, success = false, continue.
ScanUnbalanced ==
    /\ Scanning
    /\ source[loop_i] = "]"
    /\ Len(stack) = 0
    /\ lines' = [lines EXCEPT ![loop_i] = RecordedLine(line, source[loop_i])]
    /\ stderr' = Append(stderr, Err(CloseErrLine(line), UnbalancedClose))
    /\ success' = FALSE
    /\ loop_i' = AfterUnbalanced(source, loop_i)
    /\ Untouched
    /\ UNCHANGED <<jumps, stack, line, phase, prepared, status>>

\* The scan loop's condition fails: the report loop starts at i = 0.
ScanEnd ==
    /\ phase = "scan"
    /\ ~(loop_i < source_size)
    /\ phase' = "report"
    /\ loop_i' = 0
    /\ Untouched
    /\ UNCHANGED <<lines, jumps, stack, line, success, prepared, status, stderr>>

\* The line an unbalanced '[' at offset open is reported with.
OpenErrLineCurrent(open) == line
OpenErrLine(open) == lines[open]

\* One iteration of the loop over the stack entries left.
Report ==
    /\ phase = "report"
    /\ loop_i < Len(stack)
    /\ stderr' = Append(stderr, Err(OpenErrLine(stack[ReportIndex(stack, loop_i)]), UnbalancedOpen))
    /\ success' = FALSE
    /\ loop_i' = loop_i + 1
    /\ Untouched
    /\ UNCHANGED <<lines, jumps, stack, line, phase, prepared, status>>

\* bool const status = prepare() && execute(): execute() runs iff ok.
RunsExecuteAlways(ok) == TRUE
RunsExecute(ok) == ok

\* return success; main goes on to execute() or returns EXIT_FAILURE.
PrepareReturn ==
    /\ phase = "report"
    /\ ~(loop_i < Len(stack))
    /\ prepared' = success
    /\ IF RunsExecute(success)
       THEN phase' = "execute" /\ status' = "running"
       ELSE phase' = "done" /\ status' = "failure"
    /\ Untouched
    /\ UNCHANGED <<lines, jumps, loop_i, stack, line, success, stderr>>

(***************************************************************************)
(* execute(): one action per case of the switch; each is one iteration of  *)
(* the for loop, the ++pc included.                                        *)
(***************************************************************************)
\* The loop condition holds and source[pc] is byte b.
At(b) == phase = "execute" /\ pc < source_size /\ source[pc] = b

\* ++pc of the for loop, on the value the switch left in pc.
NextPcStay(p) == p
NextPcNoWrap(p) == p + 1
NextPc(p) == (p + 1) % SizeMod

\* cellptr == (CELL_COUNT - 1)
AtLastCellOffByOne(p) == p = CELL_COUNT
AtLastCellEarly(p) == p = CELL_COUNT - 2
AtLastCell(p) == p = CELL_COUNT - 1

\* cellptr == 0
AtFirstCellNever(p) == FALSE
AtFirstCell(p) == p = 0

\* pc = jumps[pc], taken when cells[cellptr] == 0.
OpenTargetSelf(p) == p
OpenTargetBeforeClose(p) == (jumps[p] - 1) % SizeMod
OpenTarget(p) == jumps[p]

\* pc = jumps[pc] - 1, on size_t.
CloseTargetNoDecrement(p) == jumps[p]
CloseTarget(p) == (jumps[p] - 1) % SizeMod

\* The line a bounds error at offset p is reported with.
BoundsErrLineNext(p) == lines[p] + 1
BoundsErrLine(p) == lines[p]

\* cells[cellptr] += 1 on uint8_t.
CellIncSaturating(v) == IF v = CellMod - 1 THEN v ELSE v + 1
CellInc(v) == (v + 1) % CellMod

\* cells[cellptr] -= 1 on uint8_t.
CellDecSaturating(v) == IF v = 0 THEN v ELSE v - 1
CellDec(v) == (v - 1) % CellMod

\* cells[cellptr] == 0: the loop is not (or no longer) entered.
LoopDoneInverted(v) == v # 0
LoopDone(v) == v = 0

\* The cell after fgetc(stdin) returned EOF: the assignment is skipped.
CellAfterEofZero(v) == 0
CellAfterEof(v) == v

\* !debug makes '#' a no-op.
DumpEnabledAlways(d) == TRUE
DumpEnabled(d) == d

Frame == UNCHANGED <<source, debug, lines, jumps, loop_i, stack, line, success, prepared>>

\* The step does not read jumps.
NoJumpRead == UNCHANGED jread

ExecInc ==
    /\ At("+")
    /\ cells' = [cells EXCEPT ![cellptr] = CellInc(@)]
    /\ pc' = NextPc(pc)
    /\ Frame
    /\ NoJumpRead
    /\ UNCHANGED <<cellptr, phase, status, consumed, eof, stdout, stderr, dump>>

ExecDec ==
    /\ At("-")
    /\ cells' = [cells EXCEPT ![cellptr] = CellDec(@)]
    /\ pc' = NextPc(pc)
    /\ Frame
    /\ NoJumpRead
    /\ UNCHANGED <<cellptr, phase, status, consumed, eof, stdout, stderr, dump>>

\* errorf(...); return false;
Fail(msg) ==
    /\ stderr' = Append(stderr, Err(BoundsErrLine(pc), msg))
    /\ phase' = "done"
    /\ status' = "failure"
    /\ Frame
    /\ NoJumpRead
    /\ UNCHANGED <<cells, cellptr, pc, consumed, eof, stdout, dump>>

ExecRight ==
    /\ At(">")
    /\ ~AtLastCell(cellptr)
    /\ cellptr' = cellptr + 1
    /\ pc' = NextPc(pc)
    /\ Frame
    /\ NoJumpRead
    /\ UNCHANGED <<cells, phase, status, consumed, eof, stdout, stderr, dump>>

ExecRightFail ==
    /\ At(">")
    /\ AtLastCell(cellptr)
    /\ Fail(RightOutOfBounds)

ExecLeft ==
    /\ At("<")
    /\ ~AtFirstCell(cellptr)
    /\ cellptr' = cellptr - 1
    /\ pc' = NextPc(pc)
    /\ Frame
    /\ NoJumpRead
    /\ UNCHANGED <<cells, phase, status, consumed, eof, stdout, stderr, dump>>

ExecLeftFail ==
    /\ At("<")
    /\ AtFirstCell(cellptr)
    /\ Fail(LeftOutOfBounds)

ExecOpen ==
    /\ At("[")
    /\ IF LoopDone(cells[cellptr])
       THEN pc' = NextPc(OpenTarget(pc)) /\ jread' = pc
       ELSE pc' = NextPc(pc) /\ NoJumpRead
    /\ Frame
    /\ UNCHANGED <<cells, cellptr, phase, status, consumed, eof, stdout, stderr, dump>>

ExecClose ==
    /\ At("]")
    /\ pc' = NextPc(CloseTarget(pc))
    /\ jread' = pc
    /\ Frame
    /\ UNCHANGED <<cells, cellptr, phase, status, consumed, eof, stdout, stderr, dump>>

WrittenAsDigit(out, byte) == IF Len(out) < MaxOut THEN Append(out, (byte + 48) % CellMod) ELSE out

\* fputc(cells[cellptr], stdout)
Written(out, byte) == IF Len(out) < MaxOut THEN Append(out, byte) ELSE out

ExecOut ==
    /\ At(".")
    /\ stdout' = Written(stdout, cells[cellptr])
    /\ pc' = NextPc(pc)
    /\ Frame
    /\ NoJumpRead
    /\ UNCHANGED <<cells, cellptr, phase, status, consumed, eof, stderr, dump>>

\* fgetc(stdin) returns a byte.
ExecIn ==
    /\ At(",")
    /\ ~eof
    /\ Len(consumed) < MaxInput
    /\ \E b \in InputBytes :
          /\ cells' = [cells EXCEPT ![cellptr] = b]
          /\ consumed' = Append(consumed, b)
    /\ pc' = NextPc(pc)
    /\ Frame
    /\ NoJumpRead
    /\ UNCHANGED <<cellptr, phase, status, eof, stdout, stderr, dump>>

\* fgetc(stdin) returns EOF.
ExecInEof ==
    /\ At(",")
    /\ eof' = TRUE
    /\ cells' = [cells EXCEPT ![cellptr] = CellAfterEof(@)]
    /\ pc' = NextPc(pc)
    /\ Frame
    /\ NoJumpRead
    /\ UNCHANGED <<cellptr, phase, status, consumed, stdout, stderr, dump>>

\* size_t const begin = cellptr < 2 ? 0 : cellptr - 2;
DumpBegin(p) == IF p < DumpBefore THEN 0 ELSE p - DumpBefore
\* size_t const end = begin + 10;
DumpEnd(begin) == begin + DumpCount

\* The rows the dump loop prints; oob gives what cells[i] reads past the array.
DumpRows(oob) ==
    LET begin == DumpBegin(cellptr)
        end == DumpEnd(begin)
    IN  [k \in 1..(end - begin) |->
            LET i == begin + k - 1
            IN  [ idx |-> i,
                  val |-> IF i < CELL_COUNT THEN cells[i] ELSE oob[i],
                  cur |-> (i = cellptr) ]]

ExecDump ==
    /\ At("#")
    /\ DumpEnabled(debug)
    /\ LET begin == DumpBegin(cellptr)
           past == {i \in begin..(DumpEnd(begin) - 1) : i >= CELL_COUNT}
       IN  \E oob \in [past -> OobVals] : dump' = DumpRows(oob)
    /\ pc' = NextPc(pc)
    /\ Frame
    /\ NoJumpRead
    /\ UNCHANGED <<cells, cellptr, phase, status, consumed, eof, stdout, stderr>>

\* if (!debug) continue;
ExecDumpOff ==
    /\ At("#")
    /\ ~DumpEnabled(debug)
    /\ pc' = NextPc(pc)
    /\ Frame
    /\ NoJumpRead
    /\ UNCHANGED <<cells, cellptr, phase, status, consumed, eof, stdout, stderr, dump>>

Instructions == {"+", "-", ">", "<", "[", "]", ".", ",", "#"}

\* No case of the switch matches.
ExecOther ==
    /\ phase = "execute"
    /\ pc < source_size
    /\ source[pc] \notin Instructions
    /\ pc' = NextPc(pc)
    /\ Frame
    /\ NoJumpRead
    /\ UNCHANGED <<cells, cellptr, phase, status, consumed, eof, stdout, stderr, dump>>

\* The loop condition fails: return true.
ExecReturn ==
    /\ phase = "execute"
    /\ ~(pc < source_size)
    /\ phase' = "done"
    /\ status' = IF prepared THEN "success" ELSE "failure"
    /\ Frame
    /\ NoJumpRead
    /\ UNCHANGED <<cells, cellptr, pc, consumed, eof, stdout, stderr, dump>>

Next ==
    \/ ScanOther
    \/ ScanOpen
    \/ ScanClose
    \/ ScanUnbalanced
    \/ ScanEnd
    \/ Report
    \/ PrepareReturn
    \/ ExecInc
    \/ ExecDec
    \/ ExecRight
    \/ ExecRightFail
    \/ ExecLeft
    \/ ExecLeftFail
    \/ ExecOpen
    \/ ExecClose
    \/ ExecOut
    \/ ExecIn
    \/ ExecInEof
    \/ ExecDump
    \/ ExecDumpOff
    \/ ExecOther
    \/ ExecReturn

Spec == Init /\ [][Next]_vars

\* The engine is a sequential loop: it keeps taking steps while one is enabled.
LiveSpec == Init /\ [][Next]_vars /\ WF_vars(Next)

(***************************************************************************)
(* Properties.                                                             *)
(***************************************************************************)
TapeIndexes == 0..(CELL_COUNT - 1)

\* prepare() has returned.
Returned == phase \in {"execute", "done"}

\* C1: the Tape Pointer starts at 0 and is in [0, Tape length) in every
\* reachable state; a move-right that does not fail adds exactly one, a
\* move-left that does not fail subtracts exactly one, and no other step
\* changes it (so it is never moved outside the range nor wrapped around).
C1_TapePointerInRange ==
    /\ cellptr = 0
    /\ [](cellptr \in TapeIndexes)
    /\ [][ /\ (At(">") /\ phase' = "execute") => cellptr' = cellptr + 1
           /\ (At("<") /\ phase' = "execute") => cellptr' = cellptr - 1
           /\ (phase' = "done" \/ ~(At(">") \/ At("<"))) => cellptr' = cellptr ]_vars

\* A move-right was refused at the last index and the pointer is still there.
C1_Witness ==
    /\ phase = "done"
    /\ cellptr = CELL_COUNT - 1
    /\ stderr # <<>>
    /\ stderr[Len(stderr)].msg = RightOutOfBounds

\* C2: a move-left at index 0 or a move-right at the last index ends the run
\* with failure in that very step: pointer, tape, output and input are left
\* as they were, the error reported carries lines[pc] of the violating byte,
\* and no step is taken once the run has ended.
C2_BoundsViolationStops ==
    [][ /\ phase # "done"
        /\ ((At("<") /\ cellptr = 0) \/ (At(">") /\ cellptr = CELL_COUNT - 1)) =>
              /\ phase' = "done"
              /\ status' = "failure"
              /\ UNCHANGED <<cells, cellptr, stdout, consumed, eof, dump>>
              /\ stderr' = Append(stderr,
                                  Err(lines[pc], IF source[pc] = "<" THEN LeftOutOfBounds
                                                 ELSE RightOutOfBounds)) ]_vars

\* A move-left failed at index 0 on a line other than the first, after the
\* pointer had been moved.
C2_Witness ==
    /\ phase = "done"
    /\ status = "failure"
    /\ prepared
    /\ cellptr = 0
    /\ stderr = <<Err(3, LeftOutOfBounds)>>

\* C3 as claimed: a loop-open on a zero cell makes the loop-close byte at
\* jumps[pc] the next instruction processed.
C3_Original_ResumesAtClose ==
    [][ (At("[") /\ cells[cellptr] = 0) => pc' = jumps[pc] ]_vars

\* C3 amended: a loop-open on a zero cell sets the counter to jumps[pc] and
\* the loop's increment follows, so the next instruction processed is the
\* byte after the loop-close, at jumps[pc] + 1; the loop-close byte is not
\* processed.
C3_ResumesAfterClose ==
    [][ (At("[") /\ cells[cellptr] = 0) =>
            /\ source[jumps[pc]] = "]"
            /\ pc' = jumps[pc] + 1
            /\ phase' = "execute" ]_vars

\* The counter stands right after a loop-close whose loop has a body: only a
\* skip from the loop-open leads there.
C3_Witness ==
    /\ phase = "execute"
    /\ pc >= 1
    /\ source[pc - 1] = "]"
    /\ jumps[pc - 1] + 1 < pc - 1

\* C4: a loop-open on a zero cell skips the loop body: the next counter is
\* not inside the body but at or beyond the loop-close, and tape, pointer and
\* output are unchanged; on a non-zero cell the next instruction is the one
\* at pc + 1.
C4_LoopBodySkipped ==
    [][ At("[") =>
            IF cells[cellptr] = 0
            THEN /\ ~(pc < pc' /\ pc' < jumps[pc])
                 /\ pc' >= jumps[pc]
                 /\ UNCHANGED <<cells, cellptr, stdout, dump>>
            ELSE /\ pc' = pc + 1
                 /\ UNCHANGED <<cells, cellptr, stdout, dump>> ]_vars

\* A loop whose body would have changed the tape or written output has been
\* skipped: the counter is past it, the tape is zero and nothing was written.
C4_Witness ==
    /\ phase = "execute"
    /\ pc >= 1
    /\ source[pc - 1] = "]"
    /\ jumps[pc - 1] + 1 < pc - 1
    /\ source[jumps[pc - 1] + 1] \in {"+", "-", "."}
    /\ \A i \in TapeIndexes : cells[i] = 0
    /\ stdout = <<>>

\* C5: a loop-close, whatever the current cell holds, makes the matching
\* loop-open at jumps[pc] the next instruction processed and changes neither
\* the tape nor the pointer.
C5_LoopCloseJumpsBack ==
    [][ At("]") =>
            /\ pc' = jumps[pc]
            /\ source[pc'] = "["
            /\ phase' = "execute"
            /\ UNCHANGED <<cells, cellptr>> ]_vars

\* The counter is back at a loop-open that was entered with a non-zero cell
\* (the byte before it is '+') and the cell is zero by now.
C5_Witness ==
    /\ At("[")
    /\ pc >= 1
    /\ source[pc - 1] = "+"
    /\ cellptr = 0
    /\ cells[0] = 0
    /\ \E j \in DOMAIN source : source[j] = "]" /\ jumps[j] = pc

(***************************************************************************)
(* Bracket structure of a source, stated without the scan's stack.         *)
(***************************************************************************)
\* Number of bytes b at the offsets a..z of src.
CountIn(src, b, a, z) == Cardinality({i \in DOMAIN src : a <= i /\ i <= z /\ src[i] = b})

\* The brackets at the offsets a..z are balanced and correctly nested.
BalancedIn(src, a, z) ==
    \/ \A k \in a..z : src[k] \notin {"[", "]"}
    \/ /\ CountIn(src, "[", a, z) = CountIn(src, "]", a, z)
       /\ \A k \in a..z : CountIn(src, "[", a, k) >= CountIn(src, "]", a, k)

Balanced(src) == BalancedIn(src, 0, Size(src) - 1)

\* The loop-close at offset j has no pending loop-open when it is scanned.
UnmatchedClose(src, j) ==
    /\ src[j] = "]"
    /\ ~\E i \in DOMAIN src : i < j /\ src[i] = "[" /\ BalancedIn(src, i + 1, j - 1)

\* The loop-open at offset i is never closed.
UnmatchedOpen(src, i) ==
    /\ src[i] = "["
    /\ ~\E j \in DOMAIN src : i < j /\ src[j] = "]" /\ BalancedIn(src, i + 1, j - 1)

\* 1 plus the number of newline bytes before offset i.
LineOf(src, i) == 1 + CountIn(src, NL, 0, i - 1)

Brackets(src) == {i \in DOMAIN src : src[i] \in {"[", "]"}}

\* Number of entries of the sequence errs equal to e.
Occurrences(errs, e) == Cardinality({k \in DOMAIN errs : errs[k] = e})

\* C6: once prepare() has run on a source whose brackets are balanced and
\* correctly nested, it has succeeded without reporting anything, and the
\* jump table pairs the brackets: jumps[jumps[i]] = i at every bracket, every
\* loop-open is paired with a loop-close at a greater offset, and two pairs
\* are nested or disjoint, never overlapping.
C6_JumpTableInvolution ==
    (Returned /\ Balanced(source)) =>
        /\ prepared
        /\ \A k \in DOMAIN stderr : stderr[k].msg \notin {UnbalancedClose, UnbalancedOpen}
        /\ \A i \in Brackets(source) :
              /\ jumps[i] \in Brackets(source)
              /\ jumps[jumps[i]] = i
              /\ source[i] = "[" => (jumps[i] > i /\ source[jumps[i]] = "]")
              /\ source[i] = "]" => (jumps[i] < i /\ source[jumps[i]] = "[")
        /\ \A a, b \in Brackets(source) :
              (source[a] = "[" /\ source[b] = "[" /\ a < b) =>
                  (jumps[b] < jumps[a] \/ jumps[a] < b)

\* A validated source with a pair nested in another and a pair after both.
C6_Witness ==
    /\ Returned
    /\ prepared
    /\ \E a, b, c \in DOMAIN source :
          /\ source[a] = "[" /\ source[b] = "[" /\ source[c] = "["
          /\ a < b /\ jumps[b] < jumps[a]
          /\ jumps[a] < c

\* C7: once prepare() has run on a source with a loop-close that has no
\* pending loop-open, it has failed, and the errors reported are exactly one
\* per violation: an unbalanced-close error with the line of each unmatched
\* loop-close and an unbalanced-open error with the line of each loop-open
\* left unmatched (the scan went on after the first error).
C7_UnbalancedCloseReported ==
    (Returned /\ \E j \in DOMAIN source : UnmatchedClose(source, j)) =>
        LET closes == {j \in DOMAIN source : UnmatchedClose(source, j)}
            opens == {i \in DOMAIN source : UnmatchedOpen(source, i)}
        IN  /\ ~prepared
            /\ status = "failure"
            /\ Len(stderr) = Cardinality(closes) + Cardinality(opens)
            /\ \A j \in closes :
                  Occurrences(stderr, Err(LineOf(source, j), UnbalancedClose))
                    = Cardinality({k \in closes : LineOf(source, k) = LineOf(source, j)})
            /\ \A i \in opens :
                  Occurrences(stderr, Err(LineOf(source, i), UnbalancedOpen))
                    = Cardinality({k \in opens : LineOf(source, k) = LineOf(source, i)})

\* Two unmatched loop-closes on different lines and a loop-open left
\* unmatched on a third line have all been reported.
C7_Witness ==
    /\ phase = "done"
    /\ ~prepared
    /\ \E a, b, c \in DOMAIN stderr :
          /\ a < b /\ b < c
          /\ stderr[a].msg = UnbalancedClose
          /\ stderr[b].msg = UnbalancedClose
          /\ stderr[c].msg = UnbalancedOpen
          /\ stderr[a].line < stderr[b].line
          /\ stderr[b].line < stderr[c].line

\* C8: execute() runs only after prepare() has succeeded; when prepare() has
\* reported an error the run is over with failure and no instruction was
\* executed: the tape is zero, the pointer 0, nothing was written or read.
C8_NoExecutionAfterPrepareFailure ==
    /\ phase = "execute" => prepared
    /\ (Returned /\ ~prepared) =>
          /\ phase = "done"
          /\ status = "failure"
          /\ stderr # <<>>
          /\ \A i \in TapeIndexes : cells[i] = 0
          /\ cellptr = 0
          /\ pc = 0
          /\ stdout = <<>>
          /\ dump = <<>>
          /\ consumed = <<>>
          /\ ~eof

\* prepare() failed on a source that starts with an instruction that would
\* have changed the tape, written or read.
C8_Witness ==
    /\ phase = "done"
    /\ ~prepared
    /\ source_size >= 2
    /\ source[0] \in {"+", ".", ",", ">"}

Terminal == phase = "done"

\* C9 as claimed: every run eventually reaches a terminal state.
C9_Original_EveryRunTerminates == <>Terminal

\* C9 amended: every run either reaches a terminal state or executes
\* loop-close instructions again and again for ever.
C9_TerminatesOrLoops == <>Terminal \/ []<>At("]")

\* A run whose loop body was executed has ended in success.
C9_Witness ==
    /\ phase = "done"
    /\ status = "success"
    /\ \E j \in DOMAIN source : source[j] = "]" /\ source[j - 1] = "-"
    /\ stdout = <<0>>

\* C10 as claimed: a dump with diagnostics enabled shows at most 10
\* consecutive cells starting 2 before the pointer (or at 0), every index it
\* reads is an index of the tape, and tape and pointer are unchanged.
C10_DumpReadsInsideTape ==
    [][ (At("#") /\ debug) =>
            /\ Len(dump') >= 1
            /\ Len(dump') <= DumpCount
            /\ dump'[1].idx = (IF cellptr < 2 THEN 0 ELSE cellptr - 2)
            /\ \A k \in DOMAIN dump' :
                  /\ dump'[k].idx = dump'[1].idx + k - 1
                  /\ dump'[k].idx \in TapeIndexes
            /\ UNCHANGED <<cells, cellptr>> ]_vars

\* The value the run of CellMod '+' or '-' bytes starts from: the byte the
\* leading ',' read, or 0.
StartValue == IF consumed = <<>> THEN 0 ELSE consumed[1]

\* The source is one byte followed by CellMod bytes c.
IsRunOf(c) ==
    /\ source_size = CellMod + 1
    /\ \A k \in 1..CellMod : source[k] = c

CellValues == 0..(CellMod - 1)

\* f applied twice.
Twice(f) == [x \in DOMAIN f |-> f[f[x]]]
\* f applied 256 times.
Times256(f) == Twice(Twice(Twice(Twice(Twice(Twice(Twice(Twice(f))))))))

\* CellMod increments in a row, and CellMod decrements in a row.
Inc256 == Times256([x \in CellValues |-> CellInc(x)])
Dec256 == Times256([x \in CellValues |-> CellDec(x)])

\* C11: an increment turns 255 into 0 and any other value v into v + 1, a
\* decrement turns 0 into 255 and any other value v into v - 1; neither is
\* an error and neither changes the pointer or another cell; 256 increments
\* (or decrements) in a row bring the cell back to the value it started from.
C11_CellArithmeticWraps ==
    /\ [][ /\ At("+") =>
                /\ cells' = [cells EXCEPT ![cellptr] = IF @ = 255 THEN 0 ELSE @ + 1]
                /\ cellptr' = cellptr
                /\ phase' = "execute"
                /\ stderr' = stderr
           /\ At("-") =>
                /\ cells' = [cells EXCEPT ![cellptr] = IF @ = 0 THEN 255 ELSE @ - 1]
                /\ cellptr' = cellptr
                /\ phase' = "execute"
                /\ stderr' = stderr ]_vars
    /\ []((phase \in {"execute", "done"} /\ pc >= 1 /\ (IsRunOf("+") \/ IsRunOf("-"))) =>
            /\ IsRunOf("+") => cells[0] = (StartValue + (pc - 1)) % 256
            /\ IsRunOf("-") => cells[0] = (StartValue - (pc - 1)) % 256
            /\ pc = 257 => cells[0] = StartValue
            /\ \A k \in TapeIndexes \ {0} : cells[k] = 0)
    /\ \A v \in CellValues : Inc256[v] = v /\ Dec256[v] = v

\* 256 increments after reading 255 have brought the cell back to 255.
C11_Witness ==
    /\ phase = "done"
    /\ IsRunOf("+")
    /\ consumed = <<255>>
    /\ cells[0] = 255

\* C12: an input instruction never fails and goes on with the next
\* instruction; either it consumes exactly one byte b of standard input and
\* sets the current cell to b, or standard input is at its end and tape and
\* pointer are left as they were; in both cases the pointer and the other
\* cells are unchanged.
C12_InputOrEof ==
    [][ At(",") =>
            /\ phase' = "execute"
            /\ pc' = pc + 1
            /\ cellptr' = cellptr
            /\ stderr' = stderr
            /\ stdout' = stdout
            /\ \/ /\ Len(consumed') = Len(consumed) + 1
                  /\ SubSeq(consumed', 1, Len(consumed)) = consumed
                  /\ cells' = [cells EXCEPT ![cellptr] = consumed'[Len(consumed')]]
                  /\ eof' = eof
               \/ /\ consumed' = consumed
                  /\ eof'
                  /\ cells' = cells ]_vars

\* A first input read 255, a second met the end of the stream and left the
\* 255 in the cell.
C12_Witness ==
    /\ phase = "execute"
    /\ pc = 2
    /\ source[0] = ","
    /\ source[1] = ","
    /\ consumed = <<255>>
    /\ eof
    /\ cells[0] = 255

\* The source is made of move-right bytes only.
AllRight == \A k \in DOMAIN source : source[k] = ">"

\* C13: on a source of move-right bytes only, every move before the
\* CELL_COUNT-th succeeds (after k moves the pointer is k); a source shorter
\* than CELL_COUNT ends in success with the pointer at its length; a source
\* of CELL_COUNT bytes fails exactly at its last byte, offset CELL_COUNT - 1,
\* with the pointer left at CELL_COUNT - 1.
C13_RightRunFailsAtLast ==
    (AllRight /\ phase \in {"execute", "done"}) =>
        /\ phase = "execute" => (cellptr = pc /\ pc <= CELL_COUNT - 1)
        /\ phase = "done" =>
              IF source_size < CELL_COUNT
              THEN /\ status = "success"
                   /\ cellptr = source_size
                   /\ stderr = <<>>
              ELSE /\ status = "failure"
                   /\ pc = CELL_COUNT - 1
                   /\ cellptr = CELL_COUNT - 1
                   /\ stderr = <<Err(1, RightOutOfBounds)>>

\* The source of exactly CELL_COUNT move-rights has failed at its last byte.
C13_Witness ==
    /\ AllRight
    /\ source_size = CELL_COUNT
    /\ phase = "done"
    /\ status = "failure"
    /\ pc = source_size - 1
    /\ cellptr = CELL_COUNT - 1

\* The program of the scenario: increment, then a clearing loop.
ClearProgram == FromSeq(<<"+", "[", "-", "]">>)

\* The three bytes at offset o are the clearing loop "[-]".
ClearLoopAt(o) ==
    /\ o >= 0
    /\ o + 2 < source_size
    /\ source[o] = "["
    /\ source[o + 1] = "-"
    /\ source[o + 2] = "]"

\* Offsets at which the sources explored have a clearing loop.
ClearOffsets == 0..MaxLen

\* C14: the program +[-] runs its loop body once (the only time the '-' is
\* reached the cell holds 1) and ends in success with no output and the cell
\* at 0.  In general, in a clearing loop [-] every execution of the body
\* finds the cell non-zero and lowers it by exactly one without moving the
\* pointer, the loop-close leads back to the loop-open, the loop is left
\* exactly when the cell is 0, and a run that reaches the loop-open does
\* leave the loop: entered with the value v, the body runs v times.
C14_ClearingLoop ==
    /\ []((source = ClearProgram /\ phase = "execute" /\ pc = 2) => cells[0] = 1)
    /\ []((source = ClearProgram /\ phase = "done") =>
            /\ status = "success"
            /\ stdout = <<>>
            /\ stderr = <<>>
            /\ cellptr = 0
            /\ \A k \in TapeIndexes : cells[k] = 0)
    /\ [](source = ClearProgram => <>(phase = "done"))
    /\ [][ \A o \in ClearOffsets :
             (phase = "execute" /\ ClearLoopAt(o) /\ pc \in o..(o + 2)) =>
                /\ phase' = "execute"
                /\ cellptr' = cellptr
                /\ stdout' = stdout
                /\ (pc = o /\ cells[cellptr] # 0) => (pc' = o + 1 /\ cells' = cells)
                /\ (pc = o /\ cells[cellptr] = 0) => (pc' = o + 3 /\ cells' = cells)
                /\ pc = o + 1 =>
                      /\ cells[cellptr] > 0
                      /\ cells' = [cells EXCEPT ![cellptr] = @ - 1]
                      /\ pc' = o + 2
                /\ pc = o + 2 => (pc' = o /\ cells' = cells) ]_vars
    /\ []((phase = "execute" /\ ClearLoopAt(pc) /\ cells[cellptr] # 0) =>
            <>(phase = "execute" /\ ClearLoopAt(pc - 3) /\ cells[cellptr] = 0))

\* The clearing loop entered with 255 has been left and the run has ended.
C14_Witness ==
    /\ source = FromSeq(<<"-", "[", "-", "]">>)
    /\ phase = "done"
    /\ status = "success"
    /\ cells[0] = 0

\* C15: a byte that is no instruction, and '#' when diagnostics are disabled,
\* is inert: the step that executes it changes no cell and not the pointer,
\* writes nothing to standard output, standard error or the dump, reads no
\* input, does not end the run, and advances the counter by exactly one.
C15_InertBytes ==
    [][ (/\ phase = "execute"
         /\ pc < source_size
         /\ \/ source[pc] \notin {"+", "-", ">", "<", "[", "]", ".", ",", "#"}
            \/ (source[pc] = "#" /\ ~debug)) =>
            /\ pc' = pc + 1
            /\ phase' = "execute"
            /\ UNCHANGED <<cells, cellptr, stdout, stderr, dump, consumed, eof>> ]_vars

\* With diagnostics disabled a '#' has been executed on a tape that is not
\* all zero, then a byte that is no instruction: nothing was dumped.
C15_Witness ==
    /\ phase = "execute"
    /\ ~debug
    /\ pc = 3
    /\ source[0] = "+"
    /\ source[1] = "#"
    /\ source[2] \notin Instructions
    /\ cells[0] = 1
    /\ dump = <<>>
    /\ stdout = <<>>

\* The source is some '+' bytes followed by one '.'.
IncrementsThenOutput ==
    /\ source_size >= 1
    /\ source[source_size - 1] = "."
    /\ \A j \in 0..(source_size - 2) : source[j] = "+"

\* C16: the output instruction appends exactly one byte, the value of the
\* current cell, to standard output (of which the first MaxOut bytes are
\* kept) and changes neither the tape nor the pointer; so a run of k '+'
\* followed by '.' ends in success having written the single byte k mod 256
\* (2 for "++."), and the empty program ends in success having written
\* nothing.
C16_OutputOneByte ==
    /\ [][ At(".") =>
               /\ Len(stdout) < MaxOut => stdout' = Append(stdout, cells[cellptr])
               /\ Len(stdout) >= MaxOut => stdout' = stdout
               /\ pc' = pc + 1
               /\ UNCHANGED <<cells, cellptr, stderr, consumed, eof>> ]_vars
    /\ []((phase = "done" /\ IncrementsThenOutput) =>
               /\ status = "success"
               /\ stdout = <<(source_size - 1) % CellMod>>)
    /\ []((phase = "done" /\ source = FromSeq(<<"+", "+", ".">>)) => stdout = <<2>>)
    /\ []((phase = "done" /\ source_size = 0) =>
               /\ status = "success"
               /\ stdout = <<>>
               /\ stderr = <<>>)

\* More than 256 increments were followed by one output: the byte written is
\* the count reduced modulo 256.
C16_Witness ==
    /\ phase = "done"
    /\ IncrementsThenOutput
    /\ source_size - 1 > CellMod
    /\ stdout = <<source_size - 1 - CellMod>>
    /\ cells[0] = source_size - 1 - CellMod

\* C17: the engine reads jumps only in the step of a '[' (on a zero cell) or
\* of a ']', and only at the offset of that byte; it runs on a validated
\* source only, where the element read was written by prepare() and is an
\* offset in [0, source length); the elements at other bytes are never
\* written and never read.
C17_JumpTableReads ==
    /\ [][ jread' # jread =>
               /\ phase = "execute"
               /\ pc < source_size
               /\ source[pc] \in {"[", "]"}
               /\ jread' = pc ]_vars
    /\ []((phase = "execute" /\ pc < source_size) => prepared)
    /\ [](jread # Undef =>
               /\ prepared
               /\ jread \in DOMAIN source
               /\ source[jread] \in {"[", "]"}
               /\ jumps[jread] # Undef
               /\ jumps[jread] \in 0..(source_size - 1))
    /\ [](Returned =>
               \A j \in DOMAIN source : source[j] \notin {"[", "]"} => jumps[j] = Undef)

\* The element of a ']' has just been read in a source that also holds a byte
\* whose element was never written.
C17_Witness ==
    /\ phase = "execute"
    /\ jread # Undef
    /\ source[jread] = "]"
    /\ pc = jumps[jread]
    /\ \E j \in DOMAIN source : jumps[j] = Undef

IsOpenError(e) == e.msg = UnbalancedOpen

\* C18: once prepare() has run on a source with loop-opens that are never
\* closed, it has failed, execute() is not run, and the unbalanced-open
\* errors on standard error are exactly one per such loop-open, in increasing
\* order of their offsets (the order they were pushed), each with the line
\* recorded in lines for that loop-open, which is the line the byte is on.
C18_UnbalancedOpenReported ==
    (Returned /\ \E i \in DOMAIN source : UnmatchedOpen(source, i)) =>
        LET opens == {i \in DOMAIN source : UnmatchedOpen(source, i)}
            errs == SelectSeq(stderr, IsOpenError)
        IN  /\ ~prepared
            /\ phase = "done"
            /\ status = "failure"
            /\ Len(errs) = Cardinality(opens)
            /\ \A i \in opens :
                  LET k == 1 + Cardinality({m \in opens : m < i})
                  IN  /\ errs[k].line = lines[i]
                      /\ errs[k].line = LineOf(source, i)

\* Two loop-opens on different lines were left unmatched in a source that
\* goes on to a later line: both are reported, the outer one first.
C18_Witness ==
    /\ phase = "done"
    /\ Len(stderr) = 2
    /\ IsOpenError(stderr[1])
    /\ IsOpenError(stderr[2])
    /\ stderr[1].line < stderr[2].line
    /\ stderr[2].line < line

\* C19: when the scan of prepare() is over, lines has one entry per byte of
\* the source and lines[i] is 1 plus the number of newline bytes at offsets
\* below i: a newline byte carries the line it ends and the byte after it
\* the next line, the entries never decrease, and no later step changes
\* them.
C19_LineMap ==
    /\ []((phase = "report" /\ loop_i = 0) =>
             /\ DOMAIN lines = DOMAIN source
             /\ \A j \in DOMAIN source :
                   /\ lines[j] = LineOf(source, j)
                   /\ j >= 1 => lines[j - 1] <= lines[j]
                   /\ (j >= 1 /\ source[j - 1] = NL) => lines[j] = lines[j - 1] + 1
                   /\ (j >= 1 /\ source[j - 1] # NL) => lines[j] = lines[j - 1]
             /\ source_size >= 1 => lines[0] = 1)
    /\ [][ phase # "scan" => UNCHANGED lines ]_vars

\* A run is over whose source has a newline byte on line 1, directly after a
\* byte of line 1 and directly before a byte that is on line 2.
C19_Witness ==
    /\ phase = "done"
    /\ \E j \in DOMAIN source :
          /\ j >= 1
          /\ j + 1 \in DOMAIN source
          /\ source[j] = NL
          /\ source[j - 1] # NL
          /\ lines[j - 1] = 1
          /\ lines[j] = 1
          /\ lines[j + 1] = 2

====
